---------------------------- MODULE Spec2Model ----------------------------
(***************************************************************************)
(* Model of the shared-expense engine of expense_tracker.py:              *)
(*   _compute_shares_from_splits  (share allocation),                      *)
(*   calculate_shared_balances    (net balance accumulation),              *)
(*   _settle                      (greedy settlement sweep),               *)
(* and of the tracker operations that write the users, shared_expenses    *)
(* and shared_expense_splits tables.                                       *)
(*                                                                         *)
(* Numbers.  The program computes with Python floats.  Amounts are         *)
(* modelled as fixed-point integers counting units of 1e-7, so that the    *)
(* program's tolerances are integers: 1e-6 = 10 units, 0.009 = 90000       *)
(* units, one cent = 100000 units.  Addition, subtraction and comparison   *)
(* are exact; a float division is rounded to the nearest unit (this        *)
(* overstates the rounding error of an IEEE double, which is of the order  *)
(* of 1e-16 of the operands).  Percentage values are dimensionless         *)
(* weights and are kept as plain integers.                                 *)
(*                                                                         *)
(* Dictionaries.  A Python dict is a sequence of <<key, value>> pairs in   *)
(* insertion order, because the iteration order of net_by_user decides     *)
(* the order of equal balances in _settle.                                 *)
(***************************************************************************)
EXTENDS Integers, Sequences, FiniteSets, TLC

(***************************************************************************)
(* Program constants, in units of 1e-7.                                    *)
(***************************************************************************)
\* the 1e-6 tolerance of _compute_shares_from_splits
EPS == 10
\* the 0.009 band of _settle
BAND == 90000
\* the quantum of round(pay, 2)
CENT == 100000

(***************************************************************************)
(* Bounds of the model.                                                    *)
(***************************************************************************)
\* user ids are 1..MaxUsers
MaxUsers == 3
\* longest declaration list given to the allocator on its own
MaxRows == 3
\* shared expense ids are 1..MaxExpenses
MaxExpenses == 2
\* longest sequence of tracker calls explored
MaxCalls == 3

Users == 1..MaxUsers

VARIABLES
    alloc,      \* one call of _compute_shares_from_splits: its arguments and outcome
    sw,         \* one call of _settle: its argument and its local variables
    users,      \* table users: the ids of its rows
    expenses,   \* table shared_expenses: id -> [total_amount, paid_by_user_id]
    splits,     \* table shared_expense_splits: shared_expense_id -> rows in rowid order
    last,       \* what the last tracker operation returned or raised
    calls,      \* the number of tracker calls made so far
    calc,       \* a calculate_shared_balances call running beside the writers
    versions    \* the committed states the expenses have had beside that call

vars == <<alloc, sw, users, expenses, splits, last, calls, calc, versions>>

(***************************************************************************)
(* Arithmetic helpers.                                                     *)
(***************************************************************************)
Min(a, b) == IF a <= b THEN a ELSE b

Abs(a) == IF a < 0 THEN -a ELSE a

\* a / b for a >= 0, b > 0, rounded to the nearest unit (ties upward)
DivRound(a, b) == (a \div b) + (IF 2 * (a % b) >= b THEN 1 ELSE 0)

\* a * (w / t) for a >= 0, w >= 0, t > 0, rounded to the nearest unit; the
\* product is split so that no intermediate value exceeds a
Proportion(a, w, t) == (a \div t) * w + DivRound((a % t) * w, t)

\* round(x, 2) for x >= 0: the nearest whole cent, ties to the even cent
Round2(x) ==
    LET q == x \div CENT
        r == x % CENT
    IN  IF 2 * r < CENT THEN q * CENT
        ELSE IF 2 * r > CENT THEN (q + 1) * CENT
        ELSE IF q % 2 = 0 THEN q * CENT
        ELSE (q + 1) * CENT

(***************************************************************************)
(* Python dict as a sequence of <<key, value>> pairs.                      *)
(***************************************************************************)
DictKeys(d) == {d[i][1] : i \in 1..Len(d)}

DictHas(d, k) == \E i \in 1..Len(d) : d[i][1] = k

\* d.get(k, dflt)
DictGet(d, k, dflt) ==
    IF DictHas(d, k) THEN d[CHOOSE i \in 1..Len(d) : d[i][1] = k][2] ELSE dflt

\* d[k] = v: an existing key keeps its position, a new key goes last
DictPut(d, k, v) ==
    IF DictHas(d, k)
    THEN [i \in 1..Len(d) |-> IF d[i][1] = k THEN <<k, v>> ELSE d[i]]
    ELSE Append(d, <<k, v>>)

RECURSIVE DictSum(_)
\* sum(d.values())
DictSum(d) == IF d = <<>> THEN 0 ELSE d[1][2] + DictSum(Tail(d))

(***************************************************************************)
(* _compute_shares_from_splits.  A declaration row is a record             *)
(* [user_id, split_type, value]; _split_value reads the row's "value" or   *)
(* "split_value" field, which the model keeps as the one field value.      *)
(***************************************************************************)
RECURSIVE fixed_total_of(_)
\* lines 369-376: the sum of the fixed rows' values
fixed_total_of(rows) ==
    IF rows = <<>> THEN 0
    ELSE (IF rows[1].split_type = "fixed" THEN rows[1].value ELSE 0)
         + fixed_total_of(Tail(rows))

RECURSIVE percent_total_of(_)
\* lines 369-376: the sum of the values of the rows that are not fixed
percent_total_of(rows) ==
    IF rows = <<>> THEN 0
    ELSE (IF rows[1].split_type = "fixed" THEN 0 ELSE rows[1].value)
         + percent_total_of(Tail(rows))

\* a variant that stores the amount over the share already there
accumulate_share_overwrite(shares, uid, amount) == DictPut(shares, uid, amount)

\* shares[uid] = shares.get(uid, 0.0) + amount
accumulate_share(shares, uid, amount) ==
    DictPut(shares, uid, DictGet(shares, uid, 0) + amount)

RECURSIVE fixed_loop(_, _)
\* lines 381-386: every fixed row adds its value to its user's share
fixed_loop(rows, shares) ==
    IF rows = <<>> THEN shares
    ELSE fixed_loop(Tail(rows),
                    IF rows[1].split_type = "fixed"
                    THEN accumulate_share(shares, rows[1].user_id, rows[1].value)
                    ELSE shares)

\* a variant that takes the value as a percentage of 100
percentage_share_of_100(remaining, val, percent_total) == Proportion(remaining, val, 100)

\* line 398: share = remaining * (val / percent_total)
percentage_share(remaining, val, percent_total) ==
    Proportion(remaining, val, percent_total)

RECURSIVE percentage_loop_all_rows(_, _, _, _)
\* a variant that gives a part to the fixed rows too, with a weight of one
percentage_loop_all_rows(rows, shares, remaining, percent_total) ==
    IF rows = <<>> THEN shares
    ELSE percentage_loop_all_rows(Tail(rows),
                                  accumulate_share(shares, rows[1].user_id,
                                      Proportion(remaining,
                                                 IF rows[1].split_type = "percentage"
                                                 THEN rows[1].value ELSE 1,
                                                 percent_total)),
                                  remaining, percent_total)

RECURSIVE percentage_loop(_, _, _, _)
\* lines 394-399: every percentage row adds its proportional part of remaining
percentage_loop(rows, shares, remaining, percent_total) ==
    IF rows = <<>> THEN shares
    ELSE percentage_loop(Tail(rows),
                         IF rows[1].split_type = "percentage"
                         THEN accumulate_share(shares, rows[1].user_id,
                                  percentage_share(remaining, rows[1].value, percent_total))
                         ELSE shares,
                         remaining, percent_total)

RECURSIVE even_loop(_, _, _)
\* lines 402-404: every row adds even_share to its user's share
even_loop(rows, shares, even_share) ==
    IF rows = <<>> THEN shares
    ELSE even_loop(Tail(rows),
                   accumulate_share(shares, rows[1].user_id, even_share),
                   even_share)

\* a variant that divides by the number of distinct users
even_share_per_user(remaining, rows) ==
    DivRound(remaining, Cardinality({rows[i].user_id : i \in 1..Len(rows)}))

\* line 401: even_share = remaining / len(splits)
even_share_of(remaining, rows) == DivRound(remaining, Len(rows))

\* a variant without the tolerance
fixed_exceeds_strict(fixed_total, total_amount) == fixed_total > total_amount

\* a variant with a tolerance of a cent
fixed_exceeds_by_cent(fixed_total, total_amount) == fixed_total - total_amount > CENT

\* line 378: the fixed rows exceed the total by more than the tolerance
fixed_exceeds(fixed_total, total_amount) == fixed_total - total_amount > EPS

\* the outcome of a call: err is the message of the ValueError raised, or "" when
\* the call returns shares
Raised(msg) == [err |-> msg, shares |-> <<>>]

Returned(shares) == [err |-> "", shares |-> shares]

compute_shares_from_splits(total_amount, rows) ==
    IF rows = <<>> THEN Raised("At least one participant is required")
    ELSE
    LET fixed_total == fixed_total_of(rows)
        percent_total == percent_total_of(rows)
    IN  IF fixed_exceeds(fixed_total, total_amount)
        THEN Raised("Fixed splits exceed the total amount")
        ELSE
        LET fixed_shares == fixed_loop(rows, <<>>)
            remaining == total_amount - fixed_total
        IN  IF remaining < -EPS THEN Raised("Allocated exceeds total amount")
            ELSE IF remaining > EPS
            THEN IF percent_total > 0
                 THEN Returned(percentage_loop(rows, fixed_shares, remaining, percent_total))
                 ELSE Returned(even_loop(rows, fixed_shares, even_share_of(remaining, rows)))
            ELSE Returned(fixed_shares)

(***************************************************************************)
(* _settle.  creditors and debtors are lists of <<uid, amount>> pairs; a   *)
(* Settlement is a record [payer_id, receiver_id, amount].  ci and di are  *)
(* the 0-based list indexes of the source.                                 *)
(***************************************************************************)
\* a variant that takes a balance of exactly 0.009 for a credit
creditors_of_inclusive(net_by_user) ==
    LET IsCreditor(e) == e[2] >= BAND
    IN  SelectSeq(net_by_user, IsCreditor)

\* line 571: the users whose balance is above the band, in the map's order
creditors_of(net_by_user) ==
    LET IsCreditor(e) == e[2] > BAND
    IN  SelectSeq(net_by_user, IsCreditor)

\* a variant that takes a balance of exactly -0.009 for a debt
debtors_of_inclusive(net_by_user) ==
    LET IsDebtor(e) == e[2] <= -BAND
        owing == SelectSeq(net_by_user, IsDebtor)
    IN  [i \in 1..Len(owing) |-> <<owing[i][1], -owing[i][2]>>]

\* line 572: the users whose balance is below the band, with the debt made positive
debtors_of(net_by_user) ==
    LET IsDebtor(e) == e[2] < -BAND
        owing == SelectSeq(net_by_user, IsDebtor)
    IN  [i \in 1..Len(owing) |-> <<owing[i][1], -owing[i][2]>>]

\* a variant that sorts ascending, as list.sort does without reverse=True
insert_asc(sorted, x) ==
    LET k == Cardinality({i \in 1..Len(sorted) : sorted[i][2] <= x[2]})
    IN  SubSeq(sorted, 1, k) \o <<x>> \o SubSeq(sorted, k + 1, Len(sorted))

\* a variant that puts x before the pairs of equal amount, as an unstable sort may
insert_desc_before_equal(sorted, x) ==
    LET k == Cardinality({i \in 1..Len(sorted) : sorted[i][2] > x[2]})
    IN  SubSeq(sorted, 1, k) \o <<x>> \o SubSeq(sorted, k + 1, Len(sorted))

\* the place list.sort(reverse=True) gives x among the already sorted pairs: after
\* every pair whose amount is at least x's (the sort is stable)
insert_desc(sorted, x) ==
    LET k == Cardinality({i \in 1..Len(sorted) : sorted[i][2] >= x[2]})
    IN  SubSeq(sorted, 1, k) \o <<x>> \o SubSeq(sorted, k + 1, Len(sorted))

RECURSIVE sort_desc(_)
\* lines 574-575: list.sort(key=lambda x: x[1], reverse=True)
sort_desc(pairs) ==
    IF pairs = <<>> THEN <<>>
    ELSE insert_desc(sort_desc(SubSeq(pairs, 1, Len(pairs) - 1)), pairs[Len(pairs)])

\* lines 571-578: the locals of _settle before the loop
settle_begin(net_by_user) ==
    [creditors   |-> sort_desc(creditors_of(net_by_user)),
     debtors     |-> sort_desc(debtors_of(net_by_user)),
     settlements |-> <<>>,
     ci          |-> 0,
     di          |-> 0]

\* line 579: the loop condition
settle_running(st) == st.ci < Len(st.creditors) /\ st.di < Len(st.debtors)

\* line 583: the recorded amount of a transfer
recorded_amount(pay) == Round2(pay)

\* a variant that moves past a party only when its amount has gone below zero
settle_iteration_stay(st) ==
    LET cred_id  == st.creditors[st.ci + 1][1]
        cred_amt == st.creditors[st.ci + 1][2]
        debt_id  == st.debtors[st.di + 1][1]
        debt_amt == st.debtors[st.di + 1][2]
        pay      == Min(cred_amt, debt_amt)
        cred_left == cred_amt - pay
        debt_left == debt_amt - pay
    IN  [creditors   |-> [st.creditors EXCEPT ![st.ci + 1] = <<cred_id, cred_left>>],
         debtors     |-> [st.debtors EXCEPT ![st.di + 1] = <<debt_id, debt_left>>],
         settlements |-> Append(st.settlements,
                                [payer_id |-> debt_id, receiver_id |-> cred_id,
                                 amount |-> recorded_amount(pay)]),
         ci          |-> IF cred_left < 0 THEN st.ci + 1 ELSE st.ci,
         di          |-> IF debt_left < 0 THEN st.di + 1 ELSE st.di]

\* lines 580-593: one iteration of the loop
settle_iteration(st) ==
    LET cred_id  == st.creditors[st.ci + 1][1]
        cred_amt == st.creditors[st.ci + 1][2]
        debt_id  == st.debtors[st.di + 1][1]
        debt_amt == st.debtors[st.di + 1][2]
        pay      == Min(cred_amt, debt_amt)
        cred_left == cred_amt - pay
        debt_left == debt_amt - pay
    IN  [creditors   |-> [st.creditors EXCEPT ![st.ci + 1] = <<cred_id, cred_left>>],
         debtors     |-> [st.debtors EXCEPT ![st.di + 1] = <<debt_id, debt_left>>],
         settlements |-> Append(st.settlements,
                                [payer_id |-> debt_id, receiver_id |-> cred_id,
                                 amount |-> recorded_amount(pay)]),
         ci          |-> IF cred_left <= BAND THEN st.ci + 1 ELSE st.ci,
         di          |-> IF debt_left <= BAND THEN st.di + 1 ELSE st.di]

RECURSIVE settle_loop(_)
\* lines 579-594: the loop run to its end, and the list returned
settle_loop(st) ==
    IF settle_running(st) THEN settle_loop(settle_iteration(st)) ELSE st.settlements

\* _settle as a function of its argument
settle(net_by_user) == settle_loop(settle_begin(net_by_user))

(***************************************************************************)
(* The tables.  The tracker's default engine is SQLite, which does not     *)
(* enforce the tables' foreign keys (nothing cascades) and gives a new     *)
(* row of an INTEGER PRIMARY KEY table the id max(id) + 1.  CHECK          *)
(* constraints are enforced.  The title, date, category and note of an     *)
(* expense take no part in any computation and are left out; so are the    *)
(* names of the users and the personal_transactions table, which no        *)
(* operation below reads.                                                  *)
(***************************************************************************)
ExpenseIds == 1..MaxExpenses

StoredIds == DOMAIN expenses

RECURSIVE SetMax(_)
SetMax(S) ==
    IF S = {} THEN 0
    ELSE LET x == CHOOSE y \in S : TRUE
             m == SetMax(S \ {x})
         IN  IF x > m THEN x ELSE m

\* inserted_primary_key of a new shared_expenses row
next_expense_id == SetMax(StoredIds) + 1

RECURSIVE row_error(_)
\* lines 307-317 and 466-476: the error of the first row the loop rejects, or ""
row_error(rows) ==
    IF rows = <<>> THEN ""
    ELSE IF rows[1].split_type \notin {"percentage", "fixed"}
         THEN "split_type must be 'percentage' or 'fixed'"
    ELSE IF rows[1].value < 0 THEN "split_value cannot be negative"
    ELSE row_error(Tail(rows))

\* payer_seen after the loop
payer_seen(rows, paid_by_user_id) ==
    \E i \in 1..Len(rows) : rows[i].user_id = paid_by_user_id

\* lines 302-324: the ValueError add_shared_expense raises before it writes, or ""
add_error(total_amount, paid_by_user_id, rows) ==
    IF total_amount <= 0 THEN "total_amount must be positive"
    ELSE IF row_error(rows) # "" THEN row_error(rows)
    ELSE IF rows = <<>> THEN "At least one participant is required"
    ELSE IF ~payer_seen(rows, paid_by_user_id) THEN "Payer must be included in splits"
    ELSE compute_shares_from_splits(total_amount, rows).err

\* a variant that stores the declarations as given, without a row for the payer
update_normalized_as_given(paid_by_user_id, rows) == rows

\* lines 477-480: normalized_splits of update_shared_expense, the payer appended
\* as a zero percentage row when no row names the payer
update_normalized(paid_by_user_id, rows) ==
    IF payer_seen(rows, paid_by_user_id) THEN rows
    ELSE Append(rows, [user_id |-> paid_by_user_id, split_type |-> "percentage",
                       value |-> 0])

\* lines 464-482: the ValueError update_shared_expense raises before it writes, or ""
update_error(total_amount, paid_by_user_id, rows) ==
    IF row_error(rows) # "" THEN row_error(rows)
    ELSE IF rows = <<>> THEN "At least one participant is required"
    ELSE compute_shares_from_splits(total_amount,
                                    update_normalized(paid_by_user_id, rows)).err

\* what an operation leaves in last
Outcome(op, err) == [op |-> op, err |-> err, net_by_user |-> <<>>, settlements |-> <<>>]

\* a variant that keeps the rows of the user and drops the others
RowsOf(rows, uid) ==
    LET Keep(r) == r.user_id = uid
    IN  SelectSeq(rows, Keep)

\* rows of a list whose user is not uid
RowsWithout(rows, uid) ==
    LET Keep(r) == r.user_id # uid
    IN  SelectSeq(rows, Keep)

(***************************************************************************)
(* calculate_shared_balances.  The expenses are read ORDER BY date; the    *)
(* date is a free input of add and update that nothing else reads, so the  *)
(* sequence read is any ordering of the stored expenses.                   *)
(***************************************************************************)
RECURSIVE debit_shares_overwrite(_, _)
\* a variant that stores the debit over the balance already there
debit_shares_overwrite(net, shares) ==
    IF shares = <<>> THEN net
    ELSE debit_shares_overwrite(DictPut(net, shares[1][1], -shares[1][2]), Tail(shares))

RECURSIVE debit_shares(_, _)
\* lines 564-565: net[uid] = net.get(uid, 0.0) - share, in the order of shares
debit_shares(net, shares) ==
    IF shares = <<>> THEN net
    ELSE debit_shares(DictPut(net, shares[1][1], DictGet(net, shares[1][1], 0) - shares[1][2]),
                      Tail(shares))

\* a variant that stores the credit over the balance already there
credit_payer_overwrite(net, payer, total_amount) == DictPut(net, payer, total_amount)

\* line 563: net[payer] = net.get(payer, 0.0) + total_amount
credit_payer(net, payer, total_amount) ==
    DictPut(net, payer, DictGet(net, payer, 0) + total_amount)

RECURSIVE accumulate(_, _, _, _)
\* lines 548-565: the loop over the expenses read, in the given order of ids;
\* err is the error _compute_shares_from_splits raised, which ends the call
accumulate(order, net, exps, rows_of) ==
    IF order = <<>> THEN [err |-> "", net |-> net]
    ELSE LET expense == exps[order[1]]
             res == compute_shares_from_splits(expense.total_amount, rows_of[order[1]])
         IN  IF res.err # "" THEN [err |-> res.err, net |-> net]
             ELSE accumulate(Tail(order),
                             debit_shares(credit_payer(net, expense.paid_by_user_id,
                                                       expense.total_amount),
                                          res.shares),
                             exps, rows_of)

\* the orderings of a set of ids
Orderings(S) ==
    {o \in [1..Cardinality(S) -> S] : \A i, j \in 1..Cardinality(S) : i # j => o[i] # o[j]}

(***************************************************************************)
(* Inputs.                                                                 *)
(***************************************************************************)
Row(u, k, v) == [user_id |-> u, split_type |-> k, value |-> v]

\* totals given to the allocator: 0, 5e-7, 1e-6 and 0.02
AllocTotals == {0, 5, 10, 200000}

\* fixed values: 0, 5e-7, 0.01 and 0.02 - 5e-7
AllocFixedValues == {0, 5, 100000, 199995}

AllocPercentValues == {0, 1, 2}

\* the rows of the calls tried name two users: the allocator only compares user ids
AllocRows ==
    {Row(u, "fixed", v) : u \in {1, 2}, v \in AllocFixedValues}
    \cup {Row(u, "percentage", v) : u \in {1, 2}, v \in AllocPercentValues}

AllocCall(t, rows) == [total_amount |-> t, rows |-> rows]

\* the calls written out in the specification's examples, amounts 100, 80, 60, 90
MixedExample ==
    AllocCall(1000000000, <<Row(1, "fixed", 200000000), Row(2, "percentage", 75),
                            Row(3, "percentage", 25)>>)

DinnerExample ==
    AllocCall(800000000, <<Row(1, "percentage", 60), Row(2, "percentage", 40)>>)

ZeroPercentExample ==
    AllocCall(600000000, <<Row(1, "percentage", 0), Row(2, "percentage", 0)>>)

SingleFixedExample == AllocCall(900000000, <<Row(1, "fixed", 300000000)>>)

FixedExceedsExample ==
    AllocCall(1000000000, <<Row(1, "fixed", 600000000), Row(2, "fixed", 500000000)>>)

AllocExamples ==
    {MixedExample, DinnerExample, ZeroPercentExample, SingleFixedExample,
     FixedExceedsExample}

\* balances given to _settle: 0, 0.001, the band's edge 0.009 and one unit past
\* it, 0.01, 0.019, 0.03 and their negatives
BalanceValues ==
    {0, 10000, 90000, 90001, 190000, 300000, -90000, -90001, -100000, -300000}

\* key sequences of n distinct users
KeyOrders(n) == {f \in [1..n -> Users] : \A i, j \in 1..n : i # j => f[i] # f[j]}

\* the maps written out in the specification's examples: {A: 50, B: -20, C: -30}
\* and {A: 0.001}
ThreeUserExample == <<<<1, 500000000>>, <<2, -200000000>>, <<3, -300000000>>>>

BelowToleranceExample == <<<<1, 10000>>>>

NetExamples == {ThreeUserExample, BelowToleranceExample}

\* what a call of the tracker declares for a user: nothing, a percentage row of
\* weight 1 or a fixed row of 0.02 - 6e-7
DbChoices == {"none", "percentage", "fixed"}

DbRow(u, k) == Row(u, k, IF k = "fixed" THEN 199994 ELSE 1)

RECURSIVE RowsOfChoice(_, _)
\* the rows a choice declares, by ascending user id from u on
RowsOfChoice(c, u) ==
    IF u > MaxUsers THEN <<>>
    ELSE (IF c[u] = "none" THEN <<>> ELSE <<DbRow(u, c[u])>>) \o RowsOfChoice(c, u + 1)

TrackerCall(t, p, rows) == [total_amount |-> t, paid_by_user_id |-> p, rows |-> rows]

\* the arguments of add_shared_expense and update_shared_expense: a total of 0.02
\* with every payer and every choice of rows, and three calls with a total of 0,
\* a split_type that is neither kind, and a negative value
TrackerInputs ==
    {TrackerCall(200000, p, RowsOfChoice(c, 1)) : p \in Users, c \in [Users -> DbChoices]}
    \cup {TrackerCall(0, 1, <<Row(1, "percentage", 1)>>),
          TrackerCall(200000, 1, <<Row(1, "equal", 1)>>),
          TrackerCall(200000, 1, <<Row(1, "percentage", -1)>>)}

(***************************************************************************)
(* State of the calls that are not in progress.                            *)
(***************************************************************************)
NoAlloc == [pc |-> "idle", total_amount |-> 0, rows |-> <<>>, result |-> Returned(<<>>)]

SettleState(pc, net_by_user, st) ==
    [pc |-> pc, net_by_user |-> net_by_user, creditors |-> st.creditors,
     debtors |-> st.debtors, settlements |-> st.settlements, ci |-> st.ci, di |-> st.di]

NoSettle == SettleState("idle", <<>>, settle_begin(<<>>))

\* no calculate_shared_balances call beside the writers
NoCalc ==
    [pc |-> "idle", expenses |-> <<>>, order |-> <<>>, net |-> <<>>, seen |-> <<>>]

NoTables ==
    /\ users = {}
    /\ calc = NoCalc
    /\ versions = {}
    /\ expenses = <<>>
    /\ splits = [id \in ExpenseIds |-> <<>>]
    /\ last = Outcome("init", "")
    /\ calls = 0

(***************************************************************************)
(* The tracker: the tables after construction and its operations.          *)
(***************************************************************************)
Init ==
    /\ alloc = NoAlloc
    /\ sw = NoSettle
    /\ NoTables

\* a tracker call is made
Called ==
    /\ calls < MaxCalls
    /\ calls' = calls + 1

\* add_user: the row is inserted under a new id; or the name, a free input, is
\* the name of a user already stored and the insert breaks the UNIQUE constraint
add_user ==
    \/ /\ SetMax(users) + 1 <= MaxUsers
       /\ users' = users \cup {SetMax(users) + 1}
       /\ last' = Outcome("add_user", "")
    \/ /\ users # {}
       /\ users' = users
       /\ last' = Outcome("add_user", "IntegrityError")

AddUser ==
    /\ Called
    /\ add_user
    /\ UNCHANGED <<alloc, sw, expenses, splits, calc, versions>>

\* a variant that inserts the expense row before it validates the declarations
add_shared_expense_insert_first(total_amount, paid_by_user_id, rows) ==
    LET err == add_error(total_amount, paid_by_user_id, rows)
        expense_id == next_expense_id
    IN  /\ expense_id <= MaxExpenses
        /\ expenses' = [id \in StoredIds \cup {expense_id} |->
                           IF id = expense_id
                           THEN [total_amount |-> total_amount,
                                 paid_by_user_id |-> paid_by_user_id]
                           ELSE expenses[id]]
        /\ splits' = IF err # "" THEN splits
                     ELSE [splits EXCEPT ![expense_id] = @ \o rows]
        /\ last' = Outcome("add_shared_expense", err)

\* add_shared_expense: the call raises and writes nothing, or inserts the expense
\* under a new id and its rows after the rows already stored under that id
add_shared_expense(total_amount, paid_by_user_id, rows) ==
    LET err == add_error(total_amount, paid_by_user_id, rows)
        expense_id == next_expense_id
    IN  IF err # ""
        THEN /\ last' = Outcome("add_shared_expense", err)
             /\ UNCHANGED <<expenses, splits>>
        ELSE /\ expense_id <= MaxExpenses
             /\ expenses' = [id \in StoredIds \cup {expense_id} |->
                                IF id = expense_id
                                THEN [total_amount |-> total_amount,
                                      paid_by_user_id |-> paid_by_user_id]
                                ELSE expenses[id]]
             /\ splits' = [splits EXCEPT ![expense_id] = @ \o rows]
             /\ last' = Outcome("add_shared_expense", "")

AddSharedExpense ==
    /\ Called
    /\ \E c \in TrackerInputs :
           add_shared_expense(c.total_amount, c.paid_by_user_id, c.rows)
    /\ UNCHANGED <<alloc, sw, users, calc, versions>>

\* update_shared_expense: the call raises and writes nothing; or its UPDATE breaks
\* the CHECK total_amount > 0 and the session is dropped uncommitted; or it commits
\* the new expense row, when the id is stored, and replaces the rows of the id
update_shared_expense(expense_id, total_amount, paid_by_user_id, rows) ==
    LET err == update_error(total_amount, paid_by_user_id, rows)
    IN  IF err # ""
        THEN /\ last' = Outcome("update_shared_expense", err)
             /\ UNCHANGED <<expenses, splits>>
        ELSE IF expense_id \in StoredIds /\ total_amount <= 0
        THEN /\ last' = Outcome("update_shared_expense", "IntegrityError")
             /\ UNCHANGED <<expenses, splits>>
        ELSE /\ expenses' = [id \in StoredIds |->
                                IF id = expense_id
                                THEN [total_amount |-> total_amount,
                                      paid_by_user_id |-> paid_by_user_id]
                                ELSE expenses[id]]
             /\ splits' = [splits EXCEPT
                              ![expense_id] = update_normalized(paid_by_user_id, rows)]
             /\ last' = Outcome("update_shared_expense", "")

UpdateSharedExpense ==
    /\ Called
    /\ \E expense_id \in ExpenseIds, c \in TrackerInputs :
           update_shared_expense(expense_id, c.total_amount, c.paid_by_user_id, c.rows)
    /\ UNCHANGED <<alloc, sw, users, calc, versions>>

\* delete_shared_expense: the rows of the id, then the expense
delete_shared_expense(expense_id) ==
    /\ splits' = [splits EXCEPT ![expense_id] = <<>>]
    /\ expenses' = [id \in StoredIds \ {expense_id} |-> expenses[id]]
    /\ last' = Outcome("delete_shared_expense", "")

DeleteSharedExpense ==
    /\ Called
    /\ \E expense_id \in ExpenseIds : delete_shared_expense(expense_id)
    /\ UNCHANGED <<alloc, sw, users, calc, versions>>

\* delete_user: the rows whose participant is the user, then the expenses the
\* user paid (their other rows stay: nothing cascades), then the user
delete_user(user_id) ==
    /\ users' = users \ {user_id}
    /\ splits' = [id \in ExpenseIds |-> RowsWithout(splits[id], user_id)]
    /\ expenses' = [id \in {i \in StoredIds : expenses[i].paid_by_user_id # user_id} |->
                       expenses[id]]
    /\ last' = Outcome("delete_user", "")

DeleteUser ==
    /\ Called
    /\ \E user_id \in Users : delete_user(user_id)
    /\ UNCHANGED <<alloc, sw, calc, versions>>

\* calculate_shared_balances over the expenses read in the given order
calculate_shared_balances(order) ==
    IF order = <<>>
    THEN Outcome("calculate_shared_balances", "")
    ELSE LET acc == accumulate(order, <<>>, expenses, splits)
         IN  IF acc.err # ""
             THEN Outcome("calculate_shared_balances", acc.err)
             ELSE [op |-> "calculate_shared_balances", err |-> "",
                   net_by_user |-> acc.net, settlements |-> settle(acc.net)]

CalculateSharedBalances ==
    /\ Called
    /\ \E order \in Orderings(StoredIds) : last' = calculate_shared_balances(order)
    /\ UNCHANGED <<alloc, sw, users, expenses, splits, calc, versions>>

Next ==
    \/ AddUser
    \/ AddSharedExpense
    \/ UpdateSharedExpense
    \/ DeleteSharedExpense
    \/ DeleteUser
    \/ CalculateSharedBalances

Spec == Init /\ [][Next]_vars

(***************************************************************************)
(* The allocator on its own: one call of _compute_shares_from_splits with  *)
(* arguments drawn as AllocInit says.                                      *)
(***************************************************************************)
AllocCalled(a) ==
    [pc |-> "call", total_amount |-> a.total_amount, rows |-> a.rows,
     result |-> Returned(<<>>)]

\* the call is one of the examples, or has a total of AllocTotals and up to
\* MaxRows rows of AllocRows
AllocInit ==
    /\ \/ \E a \in AllocExamples : alloc = AllocCalled(a)
       \/ \E t \in AllocTotals, k \in 0..MaxRows : \E rows \in [1..k -> AllocRows] :
              alloc = AllocCalled(AllocCall(t, rows))
    /\ sw = NoSettle
    /\ NoTables

ComputeShares ==
    /\ alloc.pc = "call"
    /\ alloc' = [alloc EXCEPT !.pc = "done",
                              !.result = compute_shares_from_splits(alloc.total_amount,
                                                                    alloc.rows)]
    /\ UNCHANGED <<sw, users, expenses, splits, last, calls, calc, versions>>

AllocNext == ComputeShares

AllocSpec == AllocInit /\ [][AllocNext]_vars

(***************************************************************************)
(* The settlement sweep on its own: one call of _settle, an iteration of   *)
(* its loop at a time, with its argument drawn as SettleInit says.         *)
(***************************************************************************)
\* the map is one of the examples, or gives balances of BalanceValues to distinct
\* users in some insertion order
SettleInit ==
    /\ \/ \E net \in NetExamples : sw = SettleState("call", net, settle_begin(<<>>))
       \/ \E n \in 0..MaxUsers : \E ks \in KeyOrders(n), vs \in [1..n -> BalanceValues] :
              sw = SettleState("call", [i \in 1..n |-> <<ks[i], vs[i]>>],
                               settle_begin(<<>>))
    /\ alloc = NoAlloc
    /\ NoTables

SettleCall ==
    /\ sw.pc = "call"
    /\ sw' = SettleState("loop", sw.net_by_user, settle_begin(sw.net_by_user))
    /\ UNCHANGED <<alloc, users, expenses, splits, last, calls, calc, versions>>

SettleIteration ==
    /\ sw.pc = "loop"
    /\ settle_running(sw)
    /\ sw' = SettleState("loop", sw.net_by_user, settle_iteration(sw))
    /\ UNCHANGED <<alloc, users, expenses, splits, last, calls, calc, versions>>

SettleReturn ==
    /\ sw.pc = "loop"
    /\ ~settle_running(sw)
    /\ sw' = [sw EXCEPT !.pc = "done"]
    /\ UNCHANGED <<alloc, users, expenses, splits, last, calls, calc, versions>>

SettleNext ==
    \/ SettleCall
    \/ SettleIteration
    \/ SettleReturn

SettleSpec == SettleInit /\ [][SettleNext]_vars

(***************************************************************************)
(* calculate_shared_balances beside the writers.  Every tracker method     *)
(* opens a session of its own on the shared engine, so a request served    *)
(* while another is in progress runs on another connection.  A writer's    *)
(* statements take effect together at its commit.  The reader never        *)
(* writes, so its connection opens no transaction: each of its SELECTs     *)
(* (one on shared_expenses, then one on shared_expense_splits per expense) *)
(* reads the tables as last committed when it runs.                        *)
(***************************************************************************)
\* the sweep with its steps taken as long as one is possible: _settle is a
\* sequential loop that nothing suspends
SettleLiveSpec == SettleSpec /\ WF_vars(SettleNext)

\* the arguments of the writers beside the reader: an expense paid by user 1 and
\* split by weight between users 1 and 2, and one paid by user 2 with a fixed row
ConcInputs ==
    {TrackerCall(200000, 1, <<DbRow(1, "percentage"), DbRow(2, "percentage")>>),
     TrackerCall(200000, 2, <<DbRow(2, "fixed")>>)}

\* a committed state of an expense: its row and its split rows
Version(id, expense, rows) == [id |-> id, expense |-> expense, rows |-> rows]

\* session.commit() of a writer: the states of the stored expenses are committed
Commit ==
    versions' = versions \cup {Version(id, expenses'[id], splits'[id]) : id \in DOMAIN expenses'}

ConcInit == Init

ConcAddSharedExpense ==
    /\ Called
    /\ \E c \in ConcInputs : add_shared_expense(c.total_amount, c.paid_by_user_id, c.rows)
    /\ Commit
    /\ UNCHANGED <<alloc, sw, users, calc>>

ConcUpdateSharedExpense ==
    /\ Called
    /\ \E expense_id \in ExpenseIds, c \in ConcInputs :
           update_shared_expense(expense_id, c.total_amount, c.paid_by_user_id, c.rows)
    /\ Commit
    /\ UNCHANGED <<alloc, sw, users, calc>>

ConcDeleteSharedExpense ==
    /\ Called
    /\ \E expense_id \in ExpenseIds : delete_shared_expense(expense_id)
    /\ Commit
    /\ UNCHANGED <<alloc, sw, users, calc>>

\* lines 541-546: the SELECT on shared_expenses; with no expense the call returns
CalcReadExpenses ==
    /\ calc.pc = "idle"
    /\ \E order \in Orderings(StoredIds) :
           /\ calc' = [pc |-> IF order = <<>> THEN "done" ELSE "loop",
                       expenses |-> expenses, order |-> order,
                       net |-> <<>>, seen |-> <<>>]
           /\ last' = IF order = <<>> THEN calculate_shared_balances(order) ELSE last
    /\ UNCHANGED <<alloc, sw, users, expenses, splits, calls, versions>>

\* lines 549-565: one iteration of the loop: the SELECT on shared_expense_splits
\* for the next expense read, and its shares folded into net
CalcReadSplits ==
    /\ calc.pc = "loop"
    /\ calc.order # <<>>
    /\ LET id == calc.order[1]
           acc == accumulate(<<id>>, calc.net, calc.expenses, splits)
           seen == Append(calc.seen, Version(id, calc.expenses[id], splits[id]))
       IN  IF acc.err # ""
           THEN /\ calc' = [calc EXCEPT !.pc = "done", !.seen = seen]
                /\ last' = Outcome("calculate_shared_balances", acc.err)
           ELSE /\ calc' = [calc EXCEPT !.order = Tail(@), !.net = acc.net, !.seen = seen]
                /\ last' = last
    /\ UNCHANGED <<alloc, sw, users, expenses, splits, calls, versions>>

\* lines 567-568: the loop is over
CalcReturn ==
    /\ calc.pc = "loop"
    /\ calc.order = <<>>
    /\ calc' = [calc EXCEPT !.pc = "done"]
    /\ last' = [op |-> "calculate_shared_balances", err |-> "",
                net_by_user |-> calc.net, settlements |-> settle(calc.net)]
    /\ UNCHANGED <<alloc, sw, users, expenses, splits, calls, versions>>

ConcNext ==
    \/ ConcAddSharedExpense
    \/ ConcUpdateSharedExpense
    \/ ConcDeleteSharedExpense
    \/ CalcReadExpenses
    \/ CalcReadSplits
    \/ CalcReturn

ConcSpec == ConcInit /\ [][ConcNext]_vars

(***************************************************************************)
(* Properties of _compute_shares_from_splits, checked under AllocSpec.     *)
(* The sums below are taken over the rows of the call, not by the loops    *)
(* of the code.                                                            *)
(***************************************************************************)
RECURSIVE SumSeq(_)
SumSeq(s) == IF s = <<>> THEN 0 ELSE s[1] + SumSeq(Tail(s))

CallRows == alloc.rows

CallTotal == alloc.total_amount

AllocDone == alloc.pc = "done"

AllocReturned == AllocDone /\ alloc.result.err = ""

ShareOf(u) == DictGet(alloc.result.shares, u, 0)

CallFixedSum ==
    SumSeq([i \in 1..Len(CallRows) |->
               IF CallRows[i].split_type = "fixed" THEN CallRows[i].value ELSE 0])

CallPercentSum ==
    SumSeq([i \in 1..Len(CallRows) |->
               IF CallRows[i].split_type = "percentage" THEN CallRows[i].value ELSE 0])

CallRemaining == CallTotal - CallFixedSum

\* what row i adds to its user's share
Contribution(i) ==
    LET r == CallRows[i]
        fixed_part == IF r.split_type = "fixed" THEN r.value ELSE 0
    IN  IF CallRemaining > EPS /\ CallPercentSum > 0
        THEN IF r.split_type = "percentage"
             THEN Proportion(CallRemaining, r.value, CallPercentSum)
             ELSE fixed_part
        ELSE IF CallRemaining > EPS
        THEN fixed_part + DivRound(CallRemaining, Len(CallRows))
        ELSE fixed_part

\* the sum of what the rows naming u add
ContributionsOf(u) ==
    SumSeq([i \in 1..Len(CallRows) |->
               IF CallRows[i].user_id = u THEN Contribution(i) ELSE 0])

RowsNaming(u) == {i \in 1..Len(CallRows) : CallRows[i].user_id = u}

\* C1: for a total above zero and a non-empty list of declarations that the
\* allocator accepts, the shares returned sum to the total within 1e-6.
C1_Conservation ==
    (AllocReturned /\ CallTotal > 0 /\ CallRows # <<>>)
        => Abs(DictSum(alloc.result.shares) - CallTotal) <= EPS

\* a call with fixed and percentage rows whose proportional parts were rounded
C1_Witness ==
    /\ AllocReturned
    /\ CallTotal > 0
    /\ CallFixedSum > 0
    /\ CallPercentSum > 0
    /\ CallRemaining > EPS
    /\ DictSum(alloc.result.shares) # CallTotal

\* C6: when remaining > 1e-6 and percent_total > 0, a fixed row adds its value and
\* a percentage row adds remaining * value / percent_total to its user, whatever
\* the percentages sum to; the two examples give 20, 60, 20 and 48, 32.
C6_PercentageWeights ==
    /\ (AllocDone /\ CallRemaining > EPS /\ CallPercentSum > 0)
           => /\ alloc.result.err = ""
              /\ \A u \in Users :
                     ShareOf(u) =
                         SumSeq([i \in 1..Len(CallRows) |->
                                    IF CallRows[i].user_id # u THEN 0
                                    ELSE IF CallRows[i].split_type = "fixed"
                                    THEN CallRows[i].value
                                    ELSE Proportion(CallRemaining, CallRows[i].value,
                                                    CallPercentSum)])
    /\ (AllocDone /\ AllocCall(CallTotal, CallRows) = MixedExample)
           => alloc.result.shares = <<<<1, 200000000>>, <<2, 600000000>>, <<3, 200000000>>>>
    /\ (AllocDone /\ AllocCall(CallTotal, CallRows) = DinnerExample)
           => alloc.result.shares = <<<<1, 480000000>>, <<2, 320000000>>>>

\* a returned call whose percentages do not sum to 100, with a fixed row beside them
C6_Witness ==
    /\ AllocReturned
    /\ CallRemaining > EPS
    /\ CallPercentSum = 3
    /\ CallFixedSum > 0
    /\ \E u \in Users : ShareOf(u) > 0 /\ \A i \in RowsNaming(u) : CallRows[i].split_type = "percentage"

\* C7: when remaining > 1e-6 and percent_total = 0, every row adds
\* remaining / len(declarations) to its user, so a user named by k rows gets k even
\* shares on top of its fixed values; the two examples give 30, 30 and 90.
C7_EqualSplitFallback ==
    /\ (AllocDone /\ CallRemaining > EPS /\ CallPercentSum = 0 /\ CallRows # <<>>)
           => /\ alloc.result.err = ""
              /\ \A u \in Users :
                     ShareOf(u) =
                         SumSeq([i \in 1..Len(CallRows) |->
                                    IF CallRows[i].user_id = u /\ CallRows[i].split_type = "fixed"
                                    THEN CallRows[i].value ELSE 0])
                         + Cardinality(RowsNaming(u)) * DivRound(CallRemaining, Len(CallRows))
    /\ (AllocDone /\ AllocCall(CallTotal, CallRows) = ZeroPercentExample)
           => alloc.result.shares = <<<<1, 300000000>>, <<2, 300000000>>>>
    /\ (AllocDone /\ AllocCall(CallTotal, CallRows) = SingleFixedExample)
           => alloc.result.shares = <<<<1, 900000000>>>>

\* an even split over three rows of which two name the same user
C7_Witness ==
    /\ AllocReturned
    /\ CallRemaining > EPS
    /\ CallPercentSum = 0
    /\ Len(CallRows) = 3
    /\ \E u \in Users :
           /\ Cardinality(RowsNaming(u)) = 2
           /\ ShareOf(u) = 2 * DivRound(CallRemaining, 3)

\* C8 as stated: the call raises 'Fixed splits exceed the total amount' exactly
\* when the fixed values sum to more than the total plus 1e-6, and otherwise
\* returns a share map.
C8_Original ==
    AllocDone =>
        /\ (alloc.result.err = "Fixed splits exceed the total amount")
               <=> (CallFixedSum - CallTotal > EPS)
        /\ ~(CallFixedSum - CallTotal > EPS) => alloc.result.err = ""

\* C8 as amended: for a non-empty list the call raises 'Fixed splits exceed the
\* total amount', returning no shares, exactly when the fixed values sum to more
\* than the total plus 1e-6, and otherwise returns a share map; an empty list
\* raises 'At least one participant is required'.
C8_FixedExceedsTotal ==
    AllocDone =>
        /\ (alloc.result.err = "Fixed splits exceed the total amount")
               <=> (CallRows # <<>> /\ CallFixedSum - CallTotal > EPS)
        /\ alloc.result.err # "" => alloc.result.shares = <<>>
        /\ (CallRows # <<>> /\ ~(CallFixedSum - CallTotal > EPS)) => alloc.result.err = ""
        /\ CallRows = <<>> => alloc.result.err = "At least one participant is required"
        /\ AllocCall(CallTotal, CallRows) = FixedExceedsExample
               => alloc.result.err = "Fixed splits exceed the total amount"

\* a call rejected with the fixed values one unit past the tolerance
C8_Witness ==
    /\ AllocDone
    /\ alloc.result.err = "Fixed splits exceed the total amount"
    /\ CallFixedSum - CallTotal > EPS
    /\ CallFixedSum - CallTotal < 2 * EPS

\* C9: the share of a user named by several rows is the sum of what each of the
\* rows adds (its fixed value, its proportional part, its even share).
C9_DuplicatesSummed ==
    AllocReturned =>
        \A u \in Users :
            Cardinality(RowsNaming(u)) >= 2 => ShareOf(u) = ContributionsOf(u)

\* a user named by a fixed row and a percentage row, both adding to the share
C9_Witness ==
    /\ AllocReturned
    /\ \E u \in Users : \E i, j \in RowsNaming(u) :
           /\ CallRows[i].split_type = "fixed"
           /\ CallRows[j].split_type = "percentage"
           /\ Contribution(i) > 0
           /\ Contribution(j) > 0
           /\ ShareOf(u) = Contribution(i) + Contribution(j)

(***************************************************************************)
(* Properties of _settle, checked under SettleSpec.                        *)
(***************************************************************************)
Balance(u) == DictGet(sw.net_by_user, u, 0)

InBand(b) == -BAND <= b /\ b <= BAND

\* the parties the sweep has not moved past
LiveCreditors == {sw.creditors[j][1] : j \in (sw.ci + 1)..Len(sw.creditors)}

LiveDebtors == {sw.debtors[j][1] : j \in (sw.di + 1)..Len(sw.debtors)}

\* what is left of the credit or debt of a party the sweep has not moved past
CreditLeft(u) == DictGet(sw.creditors, u, 0)

DebtLeft(u) == DictGet(sw.debtors, u, 0)

\* the step is an iteration of the loop that emits the transfer t, after the
\* transfers emitted before it
Emits(t) ==
    /\ sw.pc = "loop"
    /\ sw'.pc = "loop"
    /\ sw'.settlements = Append(sw.settlements, t)

\* t goes from the live debtor that owed most at the start to the live creditor
\* that was owed most at the start
LargestFirst(t) ==
    /\ t.payer_id \in LiveDebtors
    /\ t.receiver_id \in LiveCreditors
    /\ \A q \in LiveDebtors : -Balance(q) <= -Balance(t.payer_id)
    /\ \A q \in LiveCreditors : Balance(q) <= Balance(t.receiver_id)

IterationStep == sw.pc = "loop" /\ sw'.pc = "loop"

NewTransfer == sw'.settlements[Len(sw'.settlements)]

\* C5 as stated: every iteration emits, after the transfers before it, a transfer
\* from the largest live debtor to the largest live creditor whose amount is
\* min(credit_remaining, debt_remaining).
C5_Original ==
    [][IterationStep =>
          /\ Emits(NewTransfer)
          /\ LargestFirst(NewTransfer)
          /\ NewTransfer.amount = Min(CreditLeft(NewTransfer.receiver_id),
                                      DebtLeft(NewTransfer.payer_id))]_vars

\* C5 as amended: every iteration emits, after the transfers before it, a transfer
\* from the largest live debtor to the largest live creditor whose recorded amount
\* is min(credit_remaining, debt_remaining) rounded to 2 decimals; the balances
\* {A: 50, B: -20, C: -30} give exactly [C pays A 30, B pays A 20].
C5_GreedyLargestFirst ==
    [][/\ IterationStep =>
              /\ Emits(NewTransfer)
              /\ LargestFirst(NewTransfer)
              /\ NewTransfer.amount = Round2(Min(CreditLeft(NewTransfer.receiver_id),
                                                 DebtLeft(NewTransfer.payer_id)))
       /\ (sw'.pc = "done" /\ sw'.net_by_user = ThreeUserExample)
              => sw'.settlements =
                     <<[payer_id |-> 3, receiver_id |-> 1, amount |-> 300000000],
                       [payer_id |-> 2, receiver_id |-> 1, amount |-> 200000000]>>]_vars

\* a finished sweep of two transfers, the second to a creditor paid in part by the
\* first, with a sub-cent amount rounded
C5_Witness ==
    /\ sw.pc = "done"
    /\ Len(sw.settlements) = 2
    /\ sw.settlements[1].receiver_id = sw.settlements[2].receiver_id
    /\ sw.settlements[1].payer_id # sw.settlements[2].payer_id
    /\ -Balance(sw.settlements[1].payer_id) > -Balance(sw.settlements[2].payer_id)
    /\ sw.settlements[2].amount # -Balance(sw.settlements[2].payer_id)

\* C10: _settle returns an empty list for an empty map and for a map whose balances
\* all lie within [-0.009, 0.009], such as {A: 0.001}; and a user whose balance
\* lies in that band appears in no transfer.
C10_ToleranceBand ==
    /\ (sw.pc = "done" /\ \A u \in Users : InBand(Balance(u))) => sw.settlements = <<>>
    /\ (sw.pc = "done" /\ sw.net_by_user \in {<<>>, BelowToleranceExample})
           => sw.settlements = <<>>
    /\ \A i \in 1..Len(sw.settlements) :
           /\ ~InBand(Balance(sw.settlements[i].payer_id))
           /\ ~InBand(Balance(sw.settlements[i].receiver_id))

\* a finished sweep with a transfer, beside a user whose balance is exactly 0.009
C10_Witness ==
    /\ sw.pc = "done"
    /\ sw.settlements # <<>>
    /\ \E u \in DictKeys(sw.net_by_user) : Balance(u) = BAND

\* a finished sweep of a map of three non-zero balances, all within the band
C10_WitnessAllInBand ==
    /\ sw.pc = "done"
    /\ Len(sw.net_by_user) = 3
    /\ \A u \in DictKeys(sw.net_by_user) : Balance(u) # 0 /\ InBand(Balance(u))
    /\ sw.settlements = <<>>

(***************************************************************************)
(* Properties of calculate_shared_balances, checked under Spec.  The       *)
(* call writes nothing, so in the state it leaves the tables are the ones  *)
(* it read.                                                                *)
(***************************************************************************)
BalancesReturned == last.op = "calculate_shared_balances" /\ last.err = ""

NetOf(u) == DictGet(last.net_by_user, u, 0)

\* C2 as stated: the net_by_user map returned sums to zero within 1e-6.
C2_Original == BalancesReturned => Abs(DictSum(last.net_by_user)) <= EPS

\* C2 as amended: the net_by_user map returned sums to zero within 1e-6 for each
\* stored expense, that is within 1e-6 times the number of stored expenses.
C2_ZeroSum ==
    BalancesReturned => Abs(DictSum(last.net_by_user)) <= EPS * Cardinality(StoredIds)

\* balances returned for two expenses with different payers, not all zero and
\* not summing to exactly zero
C2_Witness ==
    /\ BalancesReturned
    /\ Cardinality(StoredIds) = 2
    /\ expenses[1].paid_by_user_id # expenses[2].paid_by_user_id
    /\ \E u \in Users : NetOf(u) > CENT
    /\ DictSum(last.net_by_user) # 0

\* C3: whatever the order in which the stored expenses are folded into the map,
\* every user's net balance is the same, and is the one returned.
C3_Commutativity ==
    /\ \A o1, o2 \in Orderings(StoredIds) :
           LET a1 == accumulate(o1, <<>>, expenses, splits)
               a2 == accumulate(o2, <<>>, expenses, splits)
           IN  /\ (a1.err = "") <=> (a2.err = "")
               /\ a1.err = "" => \A u \in Users : DictGet(a1.net, u, 0) = DictGet(a2.net, u, 0)
    /\ BalancesReturned =>
           \A o \in Orderings(StoredIds) :
               \A u \in Users : DictGet(accumulate(o, <<>>, expenses, splits).net, u, 0) = NetOf(u)

\* balances returned for two expenses of different payers and different rows, for
\* which the other order builds the map in another key order
C3_Witness ==
    /\ BalancesReturned
    /\ Cardinality(StoredIds) = 2
    /\ expenses[1].paid_by_user_id # expenses[2].paid_by_user_id
    /\ splits[1] # splits[2]
    /\ \E u \in Users : NetOf(u) # 0
    /\ \E o \in Orderings(StoredIds) :
           accumulate(o, <<>>, expenses, splits).net # last.net_by_user

RECURSIVE ApplySettlements(_, _)
\* the balance of u after the transfers: a payer's balance is raised by the
\* recorded amount, a receiver's is lowered by it
ApplySettlements(b, transfers) ==
    IF transfers = <<>> THEN b
    ELSE ApplySettlements([u \in Users |->
                              b[u]
                              + (IF transfers[1].payer_id = u THEN transfers[1].amount ELSE 0)
                              - (IF transfers[1].receiver_id = u THEN transfers[1].amount ELSE 0)],
                          Tail(transfers))

\* C4: applying the transfers returned to the net balances returned leaves every
\* user's balance within 0.01 of zero.
C4_SettlementCorrectness ==
    BalancesReturned =>
        \A u \in Users :
            Abs(ApplySettlements([v \in Users |-> NetOf(v)], last.settlements)[u]) <= CENT

(***************************************************************************)
(* Properties of the operations that write the tables, checked under Spec. *)
(***************************************************************************)
\* the sum of the fixed values of a list of declarations
FixedSumOf(rows) ==
    SumSeq([i \in 1..Len(rows) |->
               IF rows[i].split_type = "fixed" THEN rows[i].value ELSE 0])

DeclaredUsers(rows) == {rows[i].user_id : i \in 1..Len(rows)}

\* no declarations, a kind other than fixed/percentage, or a negative value
BadDeclarations(rows) ==
    \/ rows = <<>>
    \/ \E i \in 1..Len(rows) : rows[i].split_type \notin {"fixed", "percentage"}
    \/ \E i \in 1..Len(rows) : rows[i].value < 0

\* the calls add_shared_expense is said to reject
AddRejects(c) ==
    \/ c.total_amount <= 0
    \/ BadDeclarations(c.rows)
    \/ c.paid_by_user_id \notin DeclaredUsers(c.rows)
    \/ FixedSumOf(c.rows) - c.total_amount > EPS

\* the calls update_shared_expense is said to reject
UpdateRejects(c) ==
    \/ BadDeclarations(c.rows)
    \/ FixedSumOf(c.rows) - c.total_amount > EPS

\* every call of TrackerInputs that add_shared_expense is said to reject raises
AddRejectsRaise ==
    \A c \in TrackerInputs :
        AddRejects(c) <=> add_error(c.total_amount, c.paid_by_user_id, c.rows) # ""

\* every call of TrackerInputs that update_shared_expense is said to reject raises
UpdateRejectsRaise ==
    \A c \in TrackerInputs :
        UpdateRejects(c) => update_error(c.total_amount, c.paid_by_user_id, c.rows) # ""

\* C11: a call of add_shared_expense or update_shared_expense with an input it
\* rejects (no declarations, a bad kind, a negative value, payer missing on add,
\* non-positive total on add, fixed values exceeding the total) raises; and every
\* call of the two that raises leaves the stored expenses and split rows exactly
\* as they were.
C11_AllOrNothing ==
    [][/\ AddRejectsRaise
       /\ UpdateRejectsRaise
       /\ (last'.op \in {"add_shared_expense", "update_shared_expense"} /\ last'.err # "")
              => UNCHANGED <<expenses, splits>>]_vars

\* an add rejected for its fixed values, with an expense and its rows stored
C11_Witness ==
    /\ last.op = "add_shared_expense"
    /\ last.err = "Fixed splits exceed the total amount"
    /\ StoredIds # {}
    /\ \E id \in StoredIds : Len(splits[id]) >= 2

\* C12: every stored shared expense has at least one split row, and its payer is
\* the user of one of its split rows.
C12_PayerAmongSplits ==
    \A id \in StoredIds :
        /\ splits[id] # <<>>
        /\ expenses[id].paid_by_user_id \in DeclaredUsers(splits[id])

\* an update that did not name the payer: the stored rows end with the zero
\* percentage row added for the payer, after a row of another user
C12_Witness ==
    /\ last.op = "update_shared_expense"
    /\ last.err = ""
    /\ \E id \in StoredIds :
           /\ Len(splits[id]) >= 2
           /\ splits[id][Len(splits[id])] =
                  Row(expenses[id].paid_by_user_id, "percentage", 0)
           /\ splits[id][1].user_id # expenses[id].paid_by_user_id

\* the step is a call delete_user(u)
DeletesUser(u) == last'.op = "delete_user" /\ delete_user(u)

\* C13: delete_user(u) removes the user u, every shared expense u paid and every
\* split row of u under any expense id; the other users, the shared expenses the
\* others paid and, in those expenses, the split rows of the others stay as they
\* were, in their order.
C13_DeleteUserFrame ==
    [][\A u \in Users :
           DeletesUser(u) =>
               /\ users' = users \ {u}
               /\ DOMAIN expenses' = {id \in StoredIds : expenses[id].paid_by_user_id # u}
               /\ \A id \in ExpenseIds : u \notin DeclaredUsers(splits'[id])
               /\ \A id \in DOMAIN expenses' :
                      /\ expenses'[id] = expenses[id]
                      /\ LET Others(r) == r.user_id # u
                         IN  splits'[id] = SelectSeq(splits[id], Others)]_vars

\* delete_user has removed an expense that had rows of other users, and has left
\* another expense stored with a single row
C13_Witness ==
    /\ last.op = "delete_user"
    /\ Cardinality(StoredIds) = 1
    /\ \E id \in StoredIds : Len(splits[id]) = 1
    /\ \E id \in ExpenseIds \ StoredIds : splits[id] # <<>>

(***************************************************************************)
(* Properties of calculate_shared_balances beside the writers, checked     *)
(* under ConcSpec.                                                         *)
(***************************************************************************)
\* C14: for every expense the balance computation has processed, the expense row
\* and the split rows it used together are one committed state of that expense.
C14_NoTornRead ==
    \A i \in 1..Len(calc.seen) : calc.seen[i] \in versions

(***************************************************************************)
(* Further properties of _settle, checked under SettleSpec and             *)
(* SettleLiveSpec.                                                         *)
(***************************************************************************)
\* the users of the map above the band and below it
CreditorsOfMap == {u \in DictKeys(sw.net_by_user) : Balance(u) > BAND}

DebtorsOfMap == {u \in DictKeys(sw.net_by_user) : Balance(u) < -BAND}

\* C15: every iteration of the sweep moves ci, di or both forward by one and
\* neither back; the transfers emitted number at most #creditors + #debtors - 1
\* when the map has both creditors and debtors, and none otherwise; and the sweep
\* of every map returns.
C15_Termination ==
    /\ [][IterationStep =>
              /\ sw'.ci \in {sw.ci, sw.ci + 1}
              /\ sw'.di \in {sw.di, sw.di + 1}
              /\ sw'.ci + sw'.di > sw.ci + sw.di]_vars
    /\ [](IF CreditorsOfMap # {} /\ DebtorsOfMap # {}
          THEN Len(sw.settlements)
                   <= Cardinality(CreditorsOfMap) + Cardinality(DebtorsOfMap) - 1
          ELSE sw.settlements = <<>>)
    /\ <>(sw.pc = "done")

\* a returned sweep of two creditors and one debtor that emitted two transfers
C15_Witness ==
    /\ sw.pc = "done"
    /\ Cardinality(CreditorsOfMap) = 2
    /\ Cardinality(DebtorsOfMap) = 1
    /\ Len(sw.settlements) = 2
    /\ sw.ci = 2
    /\ sw.di = 0

\* the place of user u in the iteration order of the map
PlaceInMap(u) == CHOOSE i \in 1..Len(sw.net_by_user) : sw.net_by_user[i][1] = u

\* the list names each user of the set once, by descending size of balance, users
\* of equal balance in the order of the map
OrderedParties(list, parties) ==
    /\ {list[i][1] : i \in 1..Len(list)} = parties
    /\ Len(list) = Cardinality(parties)
    /\ \A i, j \in 1..Len(list) :
           i < j =>
               \/ Abs(Balance(list[i][1])) > Abs(Balance(list[j][1]))
               \/ /\ Abs(Balance(list[i][1])) = Abs(Balance(list[j][1]))
                  /\ PlaceInMap(list[i][1]) < PlaceInMap(list[j][1])

\* C16: the creditor list and the debtor list of the sweep are in descending order
\* of credit and of debt, parties of equal amount in the iteration order of the
\* map; and the transfers returned are the ones the sweep computes from the map.
C16_TieBreak ==
    sw.pc \in {"loop", "done"} =>
        /\ OrderedParties(sw.creditors, CreditorsOfMap)
        /\ OrderedParties(sw.debtors, DebtorsOfMap)
        /\ sw.pc = "done" => sw.settlements = settle(sw.net_by_user)

\* a returned sweep of a map with two creditors of equal credit, the later in the
\* map having the smaller user id, both paid by the one debtor
C16_Witness ==
    /\ sw.pc = "done"
    /\ Len(sw.settlements) = 2
    /\ \E u, v \in CreditorsOfMap :
           /\ u > v
           /\ Balance(u) = Balance(v)
           /\ PlaceInMap(u) < PlaceInMap(v)
           /\ sw.settlements[1].receiver_id = u
           /\ sw.settlements[2].receiver_id = v

\* C19: every transfer emitted goes from a user whose balance in the map is below
\* -0.009 to another user whose balance is above 0.009, and records an amount of
\* at least 0.01; and no user pays in one transfer and receives in another.
C19_TransferEnds ==
    /\ \A i \in 1..Len(sw.settlements) :
           LET t == sw.settlements[i]
           IN  /\ Balance(t.payer_id) < -BAND
               /\ Balance(t.receiver_id) > BAND
               /\ t.payer_id # t.receiver_id
               /\ t.amount >= CENT
    /\ {sw.settlements[i].payer_id : i \in 1..Len(sw.settlements)}
           \cap {sw.settlements[i].receiver_id : i \in 1..Len(sw.settlements)} = {}

\* a returned sweep with two transfers of one payer, one of them of the smallest
\* credit above the band and recorded as 0.01
C19_Witness ==
    /\ sw.pc = "done"
    /\ Len(sw.settlements) = 2
    /\ sw.settlements[1].payer_id = sw.settlements[2].payer_id
    /\ \E i \in 1..2 :
           /\ Balance(sw.settlements[i].receiver_id) = BAND + 1
           /\ sw.settlements[i].amount = CENT

(***************************************************************************)
(* A further property of _compute_shares_from_splits, checked under        *)
(* AllocSpec.                                                              *)
(***************************************************************************)
\* C17: no call raises 'Allocated exceeds total amount': every call whose
\* remaining amount is below -1e-6 has already raised 'Fixed splits exceed the
\* total amount', or 'At least one participant is required' for an empty list.
C17_DefensiveUnreachable ==
    AllocDone =>
        /\ alloc.result.err # "Allocated exceeds total amount"
        /\ (CallRows # <<>> /\ CallRemaining < -EPS)
               => alloc.result.err = "Fixed splits exceed the total amount"

\* a call with a percentage row whose fixed rows exceed the total by more than a
\* cent, rejected by the first check
C17_Witness ==
    /\ AllocDone
    /\ CallRemaining < -CENT
    /\ CallPercentSum > 0
    /\ alloc.result.err = "Fixed splits exceed the total amount"

(***************************************************************************)
(* Properties of the stored rows, checked under Spec.                      *)
(***************************************************************************)
\* C18: every stored split row references a shared expense that is stored.
C18_SplitsOwned ==
    \A id \in ExpenseIds : splits[id] # <<>> => id \in StoredIds

\* C20: calculate_shared_balances does not raise: the allocation succeeds for
\* every stored expense with the split rows stored under its id.
C20_BalancesNeverRaise ==
    last.op = "calculate_shared_balances" => last.err = ""

=============================================================================
